---- MODULE Spec2Model ----
(***************************************************************************)
(* Model of flipada.py: the Streamlit shell (main), the credential check   *)
(* (authenticate), the asset fetcher (descargar_archivo_hf) and the frame  *)
(* pipeline (process_video).                                               *)
(*                                                                         *)
(* Spec   : the whole program, driven by UI script runs.                   *)
(* SpecPV : process_video called directly with arguments drawn from        *)
(*          bounded sets (any cap, any model value, any path).             *)
(***************************************************************************)
EXTENDS Integers, Sequences, FiniteSets, TLC

\* ------------------------------------------------------------------ bounds
\* Largest number of decodable frames a video file holds.
MaxVideoFrames == 3
\* Largest number of detections the model returns for one frame.
MaxDet == 2
\* Largest max_frames a direct caller passes.
MaxCap == 4
\* Number of download or move failures the environment may inject.
MaxFailures == 2

\* ------------------------------------------------------- program constants
DefaultMaxFrames == 100
\* conf=0.3, in thousandths
ConfThreshold == 300

HF_REPO_ID == "Marxx01/yolo_basket"

MODELOS_HF ==
    [k \in {"YOLOv11m", "YOLOv11n", "YOLOv5n6u", "YOLOv8m", "YOLOv8x"} |->
        CASE k = "YOLOv11m"  -> "best_yolo11m.pt"
          [] k = "YOLOv11n"  -> "best_yolo11n.pt"
          [] k = "YOLOv5n6u" -> "best_YOLOv5n6u.pt"
          [] k = "YOLOv8m"   -> "best_yolov8m.pt"
          [] k = "YOLOv8x"   -> "best_yolov8x.pt"]

VIDEOS_HF ==
    [k \in {"Video 1", "Video 2"} |->
        IF k = "Video 1" THEN "modelo_test_video.mp4" ELSE "modelo_train_video.mp4"]

\* os.path.join("models", f) / os.path.join("videos", f): a path is its list of parts
PathJoin(dir, f) == <<dir, f>>

\* a bare file name, relative to the working directory
BarePath(f) == <<f>>

\* The options of the two select boxes the user is let to pick in the model:
\* the first key (the select box's default) and the special-cased model.
ModelChoices == {"YOLOv11m", "YOLOv5n6u"}
VideoChoices == {"Video 1", "Video 2"}

\* ------------------------------------------------------- credential store
\* hashlib.sha256(password.encode()).hexdigest(), tabulated on the passwords
\* of the model (first 16 hex digits of the real digests)
Passwords == {"", "yolo2024", "YOLO2024"}
Usernames == {"", "demo", "admin"}

hash_password(password) ==
    CASE password = ""         -> "e3b0c44298fc1c14"
      [] password = "yolo2024" -> "ba1d4f6656305fc2"
      [] password = "YOLO2024" -> "d12700c98ef82c1a"

USERS == [u \in {"demo"} |-> hash_password("yolo2024")]

authenticate_mut_user_only(username, password) == username \in DOMAIN USERS

authenticate(username, password) ==
    username \in DOMAIN USERS /\ USERS[username] = hash_password(password)

\* ---------------------------------------------------------- model values
\* A Python value passed as `model`: a loaded YOLO object (val = its weights
\* path) or a plain string.
YoloObj(path) == [kind |-> "YOLO", val |-> path]
StrObj(s) == [kind |-> "str", val |-> s]

\* model == "<literal>": a YOLO object defines no __eq__, so it equals no string
PyEqStr(m, s) == m.kind = "str" /\ m.val = s

\* lines 62-65
SizeFor(model, native) ==
    IF PyEqStr(model, "best_YOLOv5n6u.pt") THEN <<1280, 1280>> ELSE <<640, 360>>

\* the decoder's native resolution of a video (never 640x360 nor 1280x1280)
NativeSize == <<1920, 1080>>

\* model.names
ClassNames == [c \in {0, 1} |-> IF c = 0 THEN "ball" ELSE "player"]

\* The k-th detection a model returns for a frame: box corners in tenths of a
\* pixel, confidence in thousandths (>= the threshold the model was given;
\* ties of the two-decimal rounding only at exact binary fractions), class.
DetAt(k) ==
    [xyxy |-> <<100 * k + 7, 100 * k + 9, 100 * k + 405, 100 * k + 503>>,
     conf |-> CASE k % 3 = 1 -> 900 [] k % 3 = 2 -> 625 [] OTHER -> 375,
     cls  |-> k % 2]

Detections(n) == [k \in 1..n |-> DetAt(k)]

\* int(x) on a non-negative coordinate given in tenths
PyInt(tenths) == tenths \div 10

\* f"{conf:.2f}": thousandths to hundredths, round-half-to-even
Fmt2(th) ==
    LET q == th \div 10
        r == th % 10
    IN  IF r > 5 \/ (r = 5 /\ q % 2 = 1) THEN q + 1 ELSE q

\* line 86
Label(box) == <<ClassNames[box.cls], Fmt2(box.conf)>>

\* lines 81, 85: the rectangle drawn for a box
Rect(box) == [i \in 1..4 |-> PyInt(box.xyxy[i])]

DrawOne_mut_no_label(frame, box) ==
    [frame EXCEPT !.rects = Append(@, Rect(box))]

\* lines 81-88: one rectangle and one label drawn on the frame
DrawOne(frame, box) ==
    [frame EXCEPT !.rects = Append(@, Rect(box)),
                  !.labels = Append(@, Label(box))]

Min(a, b) == IF a < b THEN a ELSE b

VARIABLES
    \* --- file system and fetcher
    fs,            \* the set of paths that exist on disk
    dlCalls,       \* path -> number of hf_hub_download calls made for it
    dlPlaced,      \* path -> number of completed download-and-move
    failBudget,    \* failures the environment may still inject
    lastFetch,     \* the last descargar_archivo_hf call and how it ended
    \* --- shell
    session_state, \* st.session_state
    widgets,       \* the widgets' values
    avail,         \* the widgets and buttons the last run rendered
    clicked,       \* the button whose click started this run
    pc,            \* position of the script run
    shown,         \* the widgets and buttons this run has rendered
    loc,           \* main's locals
    ui,            \* what this run has rendered: messages and images
    run,           \* this run: logged_in at its start, operations invoked
    \* --- process_video
    pv_pc, pv_args, size, cap, processed_frames, frame_count, frame,
    results, inferLog, pv_result

fetchVars == <<fs, dlCalls, dlPlaced, failBudget, lastFetch>>
shellVars == <<session_state, widgets, avail, clicked, pc, shown, loc, ui, run>>
pvVars == <<pv_pc, pv_args, size, cap, processed_frames, frame_count, frame,
            results, inferLog, pv_result>>
vars == <<fetchVars, shellVars, pvVars>>

\* ------------------------------------------------------------ process_video
NoFrame == [src |-> 0, size |-> <<0, 0>>, rects |-> <<>>, labels |-> <<>>, ndet |-> 0]
NoCap == [ok |-> FALSE, open |-> FALSE, n |-> 0, pos |-> 0, releases |-> 0]
NoResult == [kind |-> "none", frames |-> <<>>, exc |-> ""]
NoArgs == [video_path |-> <<>>, model |-> StrObj(""), max_frames |-> 0]

\* cv2.VideoCapture(path): a path that does not exist never opens; a file
\* that exists opens or not (corrupt), and holds n decodable frames.
\* ok: the open succeeded; open: the handle is open now (cap.isOpened()).
VideoCapture(path, opened, n) ==
    [ok |-> opened, open |-> opened, n |-> n, pos |-> 0, releases |-> 0]

CanOpen_mut_always(files, path) == BOOLEAN

\* line 66: os-level existence decides whether the open can succeed

CanOpen(files, path) == IF path \in files THEN BOOLEAN ELSE {FALSE}

LoopCond_mut_off_by_one(c, count, max_frames) == c.open /\ count <= max_frames

\* line 70
LoopCond(c, count, max_frames) == c.open /\ count < max_frames

ReadSuccess_mut_always(c) == TRUE

\* line 71: cap.read() succeeds while decodable frames remain
ReadSuccess(c) == c.open /\ c.pos < c.n

\* line 75
Resize(f, sz) == [f EXCEPT !.size = sz]

\* lines 61-68, entered with the arguments of the call
PVEnter(video_path, model, max_frames) ==
    /\ \E opened \in CanOpen(fs, video_path) :
         \E n \in (IF opened THEN 0..MaxVideoFrames ELSE {0}) :
            cap' = VideoCapture(video_path, opened, n)
    /\ pv_args' = [video_path |-> video_path, model |-> model, max_frames |-> max_frames]
    /\ size' = SizeFor(model, NativeSize)
    /\ processed_frames' = <<>>
    /\ frame_count' = 0
    /\ frame' = NoFrame
    /\ results' = <<>>
    /\ inferLog' = <<>>
    /\ pv_result' = NoResult
    /\ pv_pc' = "loop"

\* line 70: the loop test
PVLoop ==
    /\ pv_pc = "loop"
    /\ pv_pc' = IF LoopCond(cap, frame_count, pv_args.max_frames) THEN "read" ELSE "release"
    /\ UNCHANGED <<pv_args, size, cap, processed_frames, frame_count, frame,
                   results, inferLog, pv_result>>
    /\ UNCHANGED <<fetchVars, shellVars>>

\* lines 71-73
PVRead ==
    /\ pv_pc = "read"
    /\ IF ReadSuccess(cap)
       THEN /\ frame' = [NoFrame EXCEPT !.src = cap.pos + 1, !.size = NativeSize]
            /\ cap' = [cap EXCEPT !.pos = @ + 1]
            /\ pv_pc' = "infer"
       ELSE /\ pv_pc' = "release"
            /\ UNCHANGED <<frame, cap>>
    /\ UNCHANGED <<pv_args, size, processed_frames, frame_count, results,
                   inferLog, pv_result>>
    /\ UNCHANGED <<fetchVars, shellVars>>

\* lines 75-79: resize, then inference on the frame returns its detections
PVInferOk ==
    /\ pv_pc = "infer"
    /\ pv_args.model.kind = "YOLO"
    /\ \E nd \in 0..MaxDet :
         /\ results' = Detections(nd)
         /\ frame' = [Resize(frame, size) EXCEPT !.ndet = nd]
    /\ inferLog' = Append(inferLog, [src |-> frame.src, conf |-> ConfThreshold])
    /\ pv_pc' = "draw"
    /\ UNCHANGED <<pv_args, size, cap, processed_frames, frame_count, pv_result>>
    /\ UNCHANGED <<fetchVars, shellVars>>

\* lines 75-78: calling a model that is no callable raises TypeError; the
\* inference of a YOLO object may raise. Nothing catches it in process_video:
\* lines 90-94 are skipped.
PVInferRaise ==
    /\ pv_pc = "infer"
    /\ frame' = Resize(frame, size)
    /\ IF pv_args.model.kind = "YOLO"
       THEN /\ inferLog' = Append(inferLog, [src |-> frame.src, conf |-> ConfThreshold])
            /\ pv_result' = [kind |-> "exception", frames |-> <<>>, exc |-> "inference"]
       ELSE /\ inferLog' = inferLog
            /\ pv_result' = [kind |-> "exception", frames |-> <<>>, exc |-> "TypeError"]
    /\ pv_pc' = "raised"
    /\ UNCHANGED <<pv_args, size, cap, processed_frames, frame_count, results>>
    /\ UNCHANGED <<fetchVars, shellVars>>

\* lines 80-88: one box of the frame's results
PVDraw ==
    /\ pv_pc = "draw"
    /\ results # <<>>
    /\ frame' = DrawOne(frame, Head(results))
    /\ results' = Tail(results)
    /\ UNCHANGED <<pv_pc, pv_args, size, cap, processed_frames, frame_count,
                   inferLog, pv_result>>
    /\ UNCHANGED <<fetchVars, shellVars>>

\* lines 90-91
PVAppend ==
    /\ pv_pc = "draw"
    /\ results = <<>>
    /\ processed_frames' = Append(processed_frames, frame)
    /\ frame_count' = frame_count + 1
    /\ pv_pc' = "loop"
    /\ UNCHANGED <<pv_args, size, cap, frame, results, inferLog, pv_result>>
    /\ UNCHANGED <<fetchVars, shellVars>>

\* lines 93-94
PVRelease ==
    /\ pv_pc = "release"
    /\ cap' = [cap EXCEPT !.open = FALSE, !.releases = @ + 1]
    /\ pv_result' = [kind |-> "value", frames |-> processed_frames, exc |-> ""]
    /\ pv_pc' = "returned"
    /\ UNCHANGED <<pv_args, size, processed_frames, frame_count, frame,
                   results, inferLog>>
    /\ UNCHANGED <<fetchVars, shellVars>>

\* ------------------------------------------ process_video called directly
\* ---------------------------------------------------- descargar_archivo_hf
CachePaths ==
    {PathJoin("models", MODELOS_HF[k]) : k \in DOMAIN MODELOS_HF}
        \cup {PathJoin("videos", VIDEOS_HF[k]) : k \in DOMAIN VIDEOS_HF}

NoFetch == [path |-> <<>>, existed |-> FALSE, called |-> FALSE, ended |-> "none"]

NeedsDownload_mut_always(files, save_path) == TRUE

\* line 22
NeedsDownload(files, save_path) == save_path \notin files

\* How one call may go: the file is there (no download), or hf_hub_download
\* and os.rename both succeed, or one of them raises.
FetchOutcomes(save_path) ==
    IF ~NeedsDownload(fs, save_path)
    THEN {"cached"}
    ELSE {"ok"} \cup (IF failBudget > 0 THEN {"download_failed", "move_failed"} ELSE {})

\* lines 21-27, one call with the outcome of its download and move
descargar_archivo_hf(repo_id, filename, save_path, outcome) ==
    /\ outcome \in FetchOutcomes(save_path)
    /\ lastFetch' = [path |-> save_path, existed |-> save_path \in fs,
                     called |-> outcome # "cached",
                     ended |-> IF outcome \in {"cached", "ok"}
                               THEN "returned" ELSE outcome]
    /\ dlCalls' = IF outcome = "cached" THEN dlCalls
                  ELSE [dlCalls EXCEPT ![save_path] = @ + 1]
    /\ dlPlaced' = IF outcome = "ok"
                   THEN [dlPlaced EXCEPT ![save_path] = @ + 1] ELSE dlPlaced
    /\ fs' = IF outcome = "ok" THEN fs \cup {save_path} ELSE fs
    /\ failBudget' = IF outcome \in {"download_failed", "move_failed"}
                     THEN failBudget - 1 ELSE failBudget

\* st.info / st.success of lines 23 and 26
FetchMsgs(outcome) ==
    CASE outcome = "cached" -> {}
      [] outcome = "ok" -> {"info: Descargando", "success: descargado"}
      [] OTHER -> {"info: Descargando", "exception"}

\* ------------------------------------------------------------------- main
PyNone == [kind |-> "None", val |-> <<>>]
UploadedFile(name) == [kind |-> "UploadedFile", val |-> name]
UploadNames == {"clip.mp4", "local.mp4"}

Buttons == {"Iniciar Sesion", "Procesar Video", "Cerrar Sesion"}
WidgetIds == {"username", "password", "modelo", "fuente", "video", "uploader"}

\* the value of each widget before the user touches it
WidgetDefaults ==
    [username |-> "", password |-> "", modelo |-> "YOLOv11m",
     fuente |-> "Video de Carpeta", video |-> "Video 1", uploader |-> PyNone]

WidgetValues(w) ==
    CASE w = "username" -> Usernames
      [] w = "password" -> Passwords
      [] w = "modelo"   -> ModelChoices
      [] w = "fuente"   -> {"Video de Carpeta", "Subir Video"}
      [] w = "video"    -> VideoChoices
      [] w = "uploader" -> {PyNone} \cup {UploadedFile(n) : n \in UploadNames}

NoLoc == [modelo_path |-> <<>>, model |-> PyNone, video_path |-> PyNone]
NoUi == [msgs |-> {}, images |-> 0]

\* st.session_state['logged_in'], False while the key is not set
LoggedIn(ss) == "logged_in" \in DOMAIN ss /\ ss["logged_in"]

NewRun(ss) == [startLogged |-> LoggedIn(ss), invoked |-> {}, pvEnd |-> "none",
               pvCount |-> 0, status |-> "running"]

\* A run that ended: the widgets it did not render lose their state.
EndWidgets(w, rendered) ==
    [k \in WidgetIds |-> IF k \in rendered THEN w[k] ELSE WidgetDefaults[k]]

\* the script run ends (normally, or by an unhandled exception) having
\* rendered `rendered`
EndRun(rendered) ==
    /\ shown' = rendered
    /\ avail' = rendered
    /\ widgets' = EndWidgets(widgets, rendered)
    /\ pc' = "idle"
    /\ loc' = NoLoc

\* The user changes a widget the page shows, or clicks a button it shows:
\* the script runs again from the top.
Interact ==
    /\ pc = "idle"
    /\ \/ \E b \in avail \cap Buttons :
            /\ clicked' = b
            /\ widgets' = widgets
       \/ \E w \in avail \cap WidgetIds :
            \E v \in WidgetValues(w) \ {widgets[w]} :
               /\ widgets' = [widgets EXCEPT ![w] = v]
               /\ clicked' = "none"
    /\ pc' = "start"
    /\ shown' = {}
    /\ ui' = NoUi
    /\ loc' = NoLoc
    /\ run' = NewRun(session_state)
    /\ UNCHANGED <<session_state, avail>>
    /\ UNCHANGED <<fetchVars, pvVars>>

\* lines 99-113: the login page
RunLogin ==
    /\ pc = "start"
    /\ ~LoggedIn(session_state)
    /\ LET ok == clicked = "Iniciar Sesion"
                    /\ authenticate(widgets.username, widgets.password)
       IN  /\ session_state' = [k \in {"logged_in"} |-> ok]
           /\ ui' = [ui EXCEPT !.msgs =
                        @ \cup {"header: Login"}
                          \cup (IF clicked # "Iniciar Sesion" THEN {}
                                ELSE IF ok THEN {"success: Inicio de sesion exitoso"}
                                ELSE {"error: Credenciales incorrectas"})]
    /\ EndRun({"username", "password", "Iniciar Sesion"})
    /\ run' = [run EXCEPT !.status = "done"]
    /\ UNCHANGED clicked
    /\ UNCHANGED <<fetchVars, pvVars>>

\* lines 115-118: the model select box and the fetch of the model's weights
RunFetchModel ==
    /\ pc = "start"
    /\ LoggedIn(session_state)
    /\ LET f == MODELOS_HF[widgets.modelo]
           save_path == PathJoin("models", f)
       IN  \E outcome \in FetchOutcomes(save_path) :
             /\ descargar_archivo_hf(HF_REPO_ID, f, save_path, outcome)
             /\ ui' = [ui EXCEPT !.msgs = @ \cup FetchMsgs(outcome)]
             /\ IF outcome \in {"cached", "ok"}
                THEN /\ loc' = [loc EXCEPT !.modelo_path = save_path]
                     /\ shown' = shown \cup {"modelo"}
                     /\ pc' = "load"
                     /\ run' = [run EXCEPT !.invoked = @ \cup {"fetch"}]
                     /\ UNCHANGED <<avail, widgets>>
                ELSE /\ EndRun({"modelo"})
                     /\ run' = [run EXCEPT !.invoked = @ \cup {"fetch"},
                                           !.status = "crashed"]
    /\ UNCHANGED <<session_state, clicked>>
    /\ UNCHANGED pvVars

\* lines 120-124: a non-empty path is truthy, the model is loaded
RunLoadModel ==
    /\ pc = "load"
    /\ IF loc.modelo_path # <<>>
       THEN /\ loc' = [loc EXCEPT !.model = YoloObj(loc.modelo_path)]
            /\ ui' = [ui EXCEPT !.msgs = @ \cup {"success: Modelo cargado"}]
            /\ run' = [run EXCEPT !.invoked = @ \cup {"load"}]
            /\ pc' = "source"
            /\ UNCHANGED <<shown, avail, widgets>>
       ELSE /\ EndRun(shown)
            /\ run' = [run EXCEPT !.status = "done"]
            /\ ui' = ui
    /\ UNCHANGED <<session_state, clicked>>
    /\ UNCHANGED <<fetchVars, pvVars>>

\* lines 126-130: a video of the folder, fetched like the model
RunVideoCarpeta ==
    /\ pc = "source"
    /\ widgets.fuente = "Video de Carpeta"
    /\ LET f == VIDEOS_HF[widgets.video]
           save_path == PathJoin("videos", f)
       IN  \E outcome \in FetchOutcomes(save_path) :
             /\ descargar_archivo_hf(HF_REPO_ID, f, save_path, outcome)
             /\ ui' = [ui EXCEPT !.msgs = @ \cup FetchMsgs(outcome)]
             /\ IF outcome \in {"cached", "ok"}
                THEN /\ loc' = [loc EXCEPT !.video_path = StrObj(save_path)]
                     /\ shown' = shown \cup {"fuente", "video"}
                     /\ pc' = "button"
                     /\ run' = [run EXCEPT !.invoked = @ \cup {"fetch"}]
                     /\ UNCHANGED <<avail, widgets>>
                ELSE /\ EndRun(shown \cup {"fuente", "video"})
                     /\ run' = [run EXCEPT !.invoked = @ \cup {"fetch"},
                                           !.status = "crashed"]
    /\ UNCHANGED <<session_state, clicked>>
    /\ UNCHANGED pvVars

\* line 133: uploaded_file.name raises AttributeError when uploaded_file is None
HasName(f) == f.kind = "UploadedFile"

\* line 133: uploaded_file.name, the bare file name
UploadPath(f) == StrObj(BarePath(f.val))

\* lines 126, 131-133: an uploaded video; only its name is taken
RunVideoSubir ==
    /\ pc = "source"
    /\ widgets.fuente = "Subir Video"
    /\ IF HasName(widgets.uploader)
       THEN /\ loc' = [loc EXCEPT !.video_path = UploadPath(widgets.uploader)]
            /\ shown' = shown \cup {"fuente", "uploader"}
            /\ pc' = "button"
            /\ UNCHANGED <<avail, widgets, ui, run>>
       ELSE /\ EndRun(shown \cup {"fuente", "uploader"})
            /\ ui' = [ui EXCEPT !.msgs = @ \cup {"exception"}]
            /\ run' = [run EXCEPT !.status = "crashed"]
    /\ UNCHANGED <<session_state, clicked>>
    /\ UNCHANGED <<fetchVars, pvVars>>

\* lines 135-138, 144-145: the process button
RunButton ==
    /\ pc = "button"
    /\ shown' = shown \cup {"Procesar Video"}
    /\ IF clicked = "Procesar Video"
       THEN IF loc.video_path # PyNone
            THEN /\ PVEnter(loc.video_path.val, loc.model, DefaultMaxFrames)
                 /\ run' = [run EXCEPT !.invoked = @ \cup {"process"}]
                 /\ pc' = "call_pv"
                 /\ ui' = ui
            ELSE /\ ui' = [ui EXCEPT !.msgs =
                              @ \cup {"warning: Por favor, selecciona un video"}]
                 /\ pc' = "logout"
                 /\ UNCHANGED <<run, pvVars>>
       ELSE /\ pc' = "logout"
            /\ UNCHANGED <<ui, run, pvVars>>
    /\ UNCHANGED <<session_state, widgets, avail, clicked, loc>>
    /\ UNCHANGED fetchVars

HandlerUi_mut_render_on_error(res, u) ==
    [msgs |-> u.msgs \cup {"header: Frames Procesados"}
                     \cup (IF res.kind = "exception"
                           THEN {"error: Error al procesar video"} ELSE {}),
     images |-> u.images + Len(res.frames)]

\* lines 137-143: what the try block renders for the call's result
HandlerUi(res, u) ==
    IF res.kind = "value"
    THEN [msgs |-> u.msgs \cup {"header: Frames Procesados"},
          images |-> u.images + Len(res.frames)]
    ELSE [msgs |-> u.msgs \cup {"error: Error al procesar video"},
          images |-> u.images]

\* lines 138-143: process_video returned or raised; its locals are gone
ProcessReturn ==
    /\ pc = "call_pv"
    /\ pv_pc \in {"returned", "raised"}
    /\ ui' = HandlerUi(pv_result, ui)
    /\ run' = [run EXCEPT !.pvEnd = pv_pc, !.pvCount = frame_count]
    /\ pc' = "logout"
    /\ pv_pc' = "idle"
    /\ pv_args' = NoArgs
    /\ size' = <<0, 0>>
    /\ cap' = NoCap
    /\ processed_frames' = <<>>
    /\ frame_count' = 0
    /\ frame' = NoFrame
    /\ results' = <<>>
    /\ inferLog' = <<>>
    /\ pv_result' = NoResult
    /\ UNCHANGED <<session_state, widgets, avail, clicked, shown, loc>>
    /\ UNCHANGED fetchVars

\* lines 147-149: the logout button; st.experimental_rerun() starts the
\* script again at once
RunLogout ==
    /\ pc = "logout"
    /\ IF clicked = "Cerrar Sesion"
       THEN /\ session_state' = [session_state EXCEPT !["logged_in"] = FALSE]
            /\ shown' = {}
            /\ avail' = shown \cup {"Cerrar Sesion"}
            /\ widgets' = EndWidgets(widgets, shown \cup {"Cerrar Sesion"})
            /\ loc' = NoLoc
            /\ ui' = NoUi
            /\ clicked' = "none"
            /\ run' = NewRun(session_state')
            /\ pc' = "start"
       ELSE /\ EndRun(shown \cup {"Cerrar Sesion"})
            /\ run' = [run EXCEPT !.status = "done"]
            /\ UNCHANGED <<session_state, ui, clicked>>
    /\ UNCHANGED <<fetchVars, pvVars>>

\* ------------------------------------------ process_video called directly
LocalFiles == {BarePath("local.mp4")}
DirectPaths == {BarePath("local.mp4"), BarePath("missing.mp4")}
DirectModels ==
    {YoloObj(PathJoin("models", MODELOS_HF[k])) : k \in ModelChoices}
        \cup {StrObj("best_YOLOv5n6u.pt")}

PVCallDirect ==
    /\ pc # "call_pv"
    /\ pv_pc \in {"idle", "returned", "raised"}
    /\ \E p \in DirectPaths, m \in DirectModels, M \in 0..MaxCap : PVEnter(p, m, M)
    /\ UNCHANGED <<fetchVars, shellVars>>
\* ----------------------------------------------------------- specifications
\* The state when the browser first opens the page: nothing cached, the
\* session empty, the first script run about to start.
Init ==
    /\ fs = LocalFiles
    /\ dlCalls = [p \in CachePaths |-> 0]
    /\ dlPlaced = [p \in CachePaths |-> 0]
    /\ failBudget = MaxFailures
    /\ lastFetch = NoFetch
    /\ session_state = [k \in {} |-> FALSE]
    /\ widgets = WidgetDefaults
    /\ avail = {}
    /\ clicked = "none"
    /\ pc = "start"
    /\ shown = {}
    /\ loc = NoLoc
    /\ ui = NoUi
    /\ run = NewRun(session_state)
    /\ pv_pc = "idle"
    /\ pv_args = NoArgs
    /\ size = <<0, 0>>
    /\ cap = NoCap
    /\ processed_frames = <<>>
    /\ frame_count = 0
    /\ frame = NoFrame
    /\ results = <<>>
    /\ inferLog = <<>>
    /\ pv_result = NoResult

Next ==
    \/ Interact
    \/ RunLogin
    \/ RunFetchModel
    \/ RunLoadModel
    \/ RunVideoCarpeta
    \/ RunVideoSubir
    \/ RunButton
    \/ ProcessReturn
    \/ RunLogout
    \/ PVLoop
    \/ PVRead
    \/ PVInferOk
    \/ PVInferRaise
    \/ PVDraw
    \/ PVAppend
    \/ PVRelease

Spec == Init /\ [][Next]_vars

NextPV ==
    \/ PVCallDirect
    \/ PVLoop
    \/ PVRead
    \/ PVInferOk
    \/ PVInferRaise
    \/ PVDraw
    \/ PVAppend
    \/ PVRelease

SpecPV == Init /\ [][NextPV]_vars

\* ------------------------------------------------------------------ claims
Terminal == {"returned", "raised"}

\* the number of inference calls made on source frame i
InferCalls(i) == Cardinality({j \in DOMAIN inferLog : inferLog[j].src = i})

\* C1: a call that returns returns exactly min(N, M) frames, the i-th derived
\* from the i-th frame read (source order, no skip, no duplicate); while the
\* call runs the sequence never grows beyond M.
C1_ReturnsMinInSourceOrder ==
    /\ Len(processed_frames) <= pv_args.max_frames
    /\ pv_pc = "returned" =>
         /\ Len(pv_result.frames) = Min(cap.n, pv_args.max_frames)
         /\ \A i \in DOMAIN pv_result.frames : pv_result.frames[i].src = i

\* a call returned a video cut by the cap: fewer frames than the video holds
C1_Witness ==
    /\ pv_pc = "returned"
    /\ pv_args.max_frames >= 1
    /\ cap.n > pv_args.max_frames
    /\ Len(pv_result.frames) = pv_args.max_frames

\* C2: on every exit path of a call (cap reached, source exhausted, exception
\* in the middle of the batch) the handle was released exactly once and is
\* not open when the call has ended.
C2_ReleasedOnceOnEveryExit ==
    pv_pc \in Terminal => cap.releases = 1 /\ ~cap.open

\* C3: every frame the shell's call returns has the size of the model the
\* shell selected and loaded: 1280x1280 for best_YOLOv5n6u.pt, 640x360 for
\* every other model.
C3_SizeOfActiveModel ==
    (pc = "call_pv" /\ pv_pc = "returned") =>
        \A i \in DOMAIN pv_result.frames :
            pv_result.frames[i].size =
                IF MODELOS_HF[widgets.modelo] = "best_YOLOv5n6u.pt"
                THEN <<1280, 1280>> ELSE <<640, 360>>

\* C4: a source that cannot be opened, or opens with zero readable frames,
\* makes the call run no inference, append nothing, raise nothing and return
\* the empty sequence, whatever max_frames is.
C4_NoFramesNoWork ==
    (pv_pc # "idle" /\ cap.n = 0) =>
        /\ inferLog = <<>>
        /\ processed_frames = <<>>
        /\ pv_pc \notin {"infer", "draw", "raised"}
        /\ pv_pc = "returned" => pv_result = [kind |-> "value", frames |-> <<>>, exc |-> ""]

\* a video that opens and holds no readable frame was processed with a cap > 0
C4_Witness ==
    /\ pv_pc = "returned"
    /\ cap.ok
    /\ cap.n = 0
    /\ pv_args.max_frames > 0

\* C5: when inference raises, the call ends with the exception and no
\* sequence, no frame was inferred twice, and the shell's handler shows the
\* error message and renders neither the header nor any frame of the request.
C5_InferenceErrorSurfaces ==
    /\ pv_pc = "raised" =>
         /\ pv_result.kind = "exception"
         /\ pv_result.frames = <<>>
         /\ \A i \in 1..cap.pos : InferCalls(i) = 1
    /\ run.pvEnd = "raised" =>
         /\ "error: Error al procesar video" \in ui.msgs
         /\ "header: Frames Procesados" \notin ui.msgs
         /\ ui.images = 0
         /\ run.status # "crashed"

\* the shell handled an exception raised after at least one frame was done
C5_Witness ==
    /\ run.pvEnd = "raised"
    /\ run.pvCount >= 1
    /\ pc = "idle"
    /\ "error: Error al procesar video" \in ui.msgs

\* C6 as stated: for every cache path the download is performed at most
\* once, also after a failed download or move, and a call that returns
\* leaves the file at save_path.
C6_DownloadAtMostOnce ==
    /\ \A p \in CachePaths : dlCalls[p] <= 1
    /\ lastFetch.ended = "returned" => lastFetch.path \in fs

\* C6 amended: for every cache path at most one download-and-move completes;
\* a call downloads exactly when the file is absent, so a call after a failed
\* download or move downloads again and a call after a completed one does
\* not; a call that returns leaves the file at save_path.
C6_PlacedAtMostOnce ==
    /\ \A p \in CachePaths :
         /\ dlPlaced[p] <= 1
         /\ dlPlaced[p] = 1 <=> p \in fs
         /\ dlCalls[p] >= dlPlaced[p]
    /\ lastFetch.ended # "none" => (lastFetch.called <=> ~lastFetch.existed)
    /\ lastFetch.ended = "returned" => lastFetch.path \in fs

\* a path was downloaded again after a failure, and a later call reused it
C6_Witness ==
    /\ lastFetch.ended = "returned"
    /\ lastFetch.existed
    /\ ~lastFetch.called
    /\ dlCalls[lastFetch.path] = 2
    /\ dlPlaced[lastFetch.path] = 1

\* the two-decimal text of the confidences the model returns
ConfText(th) == CASE th = 900 -> 90 [] th = 625 -> 62 [] th = 375 -> 38

\* C7: each returned frame was inferred exactly once, with threshold 0.3, and
\* carries one rectangle and one label "<class name> <conf to 2 decimals>" per
\* detection the model returned for it, in order; none is dropped, none added.
C7_OneOverlayPerDetection ==
    pv_pc = "returned" =>
        \A i \in DOMAIN pv_result.frames :
            LET f == pv_result.frames[i] IN
            /\ InferCalls(f.src) = 1
            /\ \A j \in DOMAIN inferLog : inferLog[j].conf = 300
            /\ Len(f.rects) = f.ndet
            /\ Len(f.labels) = f.ndet
            /\ \A k \in 1..f.ndet :
                 /\ f.labels[k] = <<ClassNames[DetAt(k).cls], ConfText(DetAt(k).conf)>>
                 /\ f.rects[k] = [c \in 1..4 |-> DetAt(k).xyxy[c] \div 10]

\* a returned batch holds a frame with two detections and one with none
C7_Witness ==
    /\ pv_pc = "returned"
    /\ \E i, j \in DOMAIN pv_result.frames :
         /\ pv_result.frames[i].ndet = 2
         /\ Len(pv_result.frames[i].labels) = 2
         /\ pv_result.frames[j].ndet = 0
         /\ pv_result.frames[j].rects = <<>>

C8_GateInv ==
    /\ run.invoked # {} => run.startLogged
    /\ (pc = "idle" /\ ~run.startLogged) =>
         "header: Login" \in ui.msgs /\ run.invoked = {}

C8_LoginStep ==
    (~LoggedIn(session_state) /\ LoggedIn(session_state')) =>
        /\ clicked = "Iniciar Sesion"
        /\ widgets.username = "demo"
        /\ widgets.password = "yolo2024"
        /\ ~run.startLogged
        /\ run'.invoked = {}

C8_LogoutStep ==
    (LoggedIn(session_state) /\ ~LoggedIn(session_state')) =>
        /\ clicked = "Cerrar Sesion"
        /\ pc' = "start"
        /\ ~run'.startLogged

\* C8: the fetcher, the model loader and process_video are invoked only in a
\* run that started logged in; logged_in turns true only in a login run
\* whose user is in USERS with the password of the stored hash, and turns
\* false only by the logout button, whose next run is a login-page run.
C8_LoginGate ==
    /\ ~LoggedIn([k \in {} |-> FALSE])
    /\ [](C8_GateInv)
    /\ [][C8_LoginStep /\ C8_LogoutStep]_vars

\* the login page is shown again after a session that fetched a model
C8_Witness ==
    /\ pc = "idle"
    /\ ~LoggedIn(session_state)
    /\ "header: Login" \in ui.msgs
    /\ \E p \in CachePaths : p \in fs

UploadMissing ==
    /\ widgets.fuente = "Subir Video"
    /\ widgets.uploader.kind = "UploadedFile"
    /\ BarePath(widgets.uploader.val) \notin fs
    /\ clicked = "Procesar Video"

\* C9: an uploaded file whose bare name is no path on disk: the process click
\* calls process_video with that name alone, the call returns the empty
\* sequence, and the run shows the results header, zero frames, no error and
\* no warning.
C9_MissingUploadIsSilent ==
    /\ (UploadMissing /\ pc = "call_pv") =>
         /\ pv_args.video_path = <<widgets.uploader.val>>
         /\ pv_pc # "raised"
         /\ inferLog = <<>>
         /\ pv_pc = "returned" => pv_result.frames = <<>>
    /\ (UploadMissing /\ pc \in {"logout", "idle"}) =>
         /\ run.pvEnd = "returned"
         /\ ui.msgs = {"success: Modelo cargado", "header: Frames Procesados"}
         /\ ui.images = 0

\* the run of such a click ended with the header and no frame
C9_Witness ==
    /\ UploadMissing
    /\ pc = "idle"
    /\ run.pvEnd = "returned"
    /\ "header: Frames Procesados" \in ui.msgs
    /\ ui.images = 0

NoVideo ==
    /\ run.startLogged
    /\ widgets.fuente = "Subir Video"
    /\ widgets.uploader = PyNone

\* C10: a logged-in run with no video (upload mode, nothing uploaded) ends
\* without an unhandled exception, and a process click in it shows the
\* warning and does not call process_video.
C10_NoVideoRunCompletes ==
    (NoVideo /\ pc = "idle") =>
        /\ run.status = "done"
        /\ clicked = "Procesar Video" =>
             /\ "warning: Por favor, selecciona un video" \in ui.msgs
             /\ "process" \notin run.invoked

\* The warning of line 145 is shown in no run, and no process click happens
\* with nothing uploaded.
WarningNeverShown ==
    /\ "warning: Por favor, selecciona un video" \notin ui.msgs
    /\ ~(NoVideo /\ clicked = "Procesar Video")
====
